---------------------------- MODULE Spec2Model ----------------------------
(***************************************************************************)
(* A model of kivy.uix.splitter.Splitter (src/kivy/uix/splitter.py).       *)
(*                                                                         *)
(* The Splitter is a BoxLayout that holds one managed widget (_container)  *)
(* and a SplitterStrip (_strip).  The strip's touch events are bound to    *)
(* the Splitter's strip_down / strip_move / strip_up handlers, which       *)
(* resize the Splitter along the axis chosen by sizable_from.              *)
(*                                                                         *)
(* Conventions of the model                                                *)
(*   - a widget reference is a string, None is the string "None", the      *)
(*     Splitter itself is "self";                                          *)
(*   - an optional number (a size hint, a dimension left at the toolkit's  *)
(*     default) is a tuple: << >> is None/unset, <<n>> is the value n;     *)
(*   - the Splitter's own size hints are kept as numerators over the       *)
(*     parent's extent: the hint <<n>> is the fraction n / ParentExtent,   *)
(*     so that  hint + delta / parent.width  is  <<n + delta>>  and the    *)
(*     size the parent's layout gives the widget is  n;                    *)
(*   - the size hints of the strip and of the managed widget only ever     *)
(*     receive the literals None and 1: <<1>> there is the hint 1.         *)
(***************************************************************************)
EXTENDS Integers, Sequences, FiniteSets

VARIABLES
    sizable_from,          \* OptionProperty, line 55
    strip_size,            \* NumericProperty, line 64
    min_size,              \* NumericProperty, line 71
    max_size,              \* NumericProperty, line 78
    _container,            \* the managed widget, or None (line 86)
    _strip,                \* the strip instance, or None (line 87)
    strips_created,        \* how many times strip_cls() has been called
    children,              \* BoxLayout.children, in index order
    orientation,           \* BoxLayout.orientation
    strip_size_observers,  \* observers bound to self.strip_size: <<widget, property>>
    strip_w,               \* the strip's size_hint, width, height and event bindings
    panel_hint,            \* size_hint_x / size_hint_y of every candidate widget
    width,                 \* self.width
    height,                \* self.height
    size_hint_x,           \* self.size_hint_x
    size_hint_y,           \* self.size_hint_y
    parent,                \* self.parent: "None", or the kind of parent
    touch_grab_list,       \* the widgets that hold the touch's grab
    last                   \* history: the last operation, its result and code path

vars == <<sizable_from, strip_size, min_size, max_size, _container, _strip,
          strips_created, children, orientation, strip_size_observers, strip_w,
          panel_hint, width, height, size_hint_x, size_hint_y, parent,
          touch_grab_list, last>>

config_vars == <<sizable_from, strip_size, min_size, max_size, _container, _strip,
                 strips_created, children, orientation, strip_size_observers,
                 strip_w, panel_hint>>

size_vars == <<width, height, size_hint_x, size_hint_y>>

---------------------------------------------------------------------------
(* Bounds of the model *)

MaxStripSize == 2      \* strip_size ranges over 1..MaxStripSize
SmallSize == 2         \* the smaller of the two values min_size / max_size take
LargeSize == 4         \* the larger of the two values min_size / max_size take
MaxDelta == 1          \* touch.dx and touch.dy range over -MaxDelta..MaxDelta
MaxHint == 5           \* a size hint stays within 0..MaxHint (over ParentExtent)
ParentExtent == 8      \* the width and the height of a parent that has an extent

---------------------------------------------------------------------------
(* Values *)

None == "None"
Self == "self"
Edges == {"left", "right", "top", "bottom"}
Panels == {"p1", "p2"}
Deltas == (0 - MaxDelta)..MaxDelta
Abs(n) == IF n < 0 THEN 0 - n ELSE n
\* <<touch.dx, touch.dy>>: the moves of one event, along an axis or diagonal
Moves == {m \in Deltas \X Deltas : Abs(m[1]) + Abs(m[2]) <= MaxDelta}
StripSizes == 1..MaxStripSize
Unset == << >>
One == <<1>>
Parents == {"None", "zero", "sized"}

\* self.sizable_from[0]
sz_frm_of(edge) ==
    CASE edge = "left" -> "l"
      [] edge = "right" -> "r"
      [] edge = "top" -> "t"
      [] edge = "bottom" -> "b"

\* Python truthiness of a numeric property that may be None
Truthy(h) == h # Unset /\ h[1] # 0

---------------------------------------------------------------------------
(* The toolkit's lists, bindings and grabs *)

\* list.insert(index, x): the index is clamped to the length of the list
ListInsert(s, index, x) ==
    LET i == IF index > Len(s) THEN Len(s) ELSE index
    IN  SubSeq(s, 1, i) \o <<x>> \o SubSeq(s, i + 1, Len(s))

InList(s, x) == \E i \in 1..Len(s) : s[i] = x

\* list.remove(x): the first occurrence
ListRemove(s, x) ==
    IF ~InList(s, x) THEN s
    ELSE LET i == CHOOSE k \in 1..Len(s) : s[k] = x /\ \A j \in 1..(k - 1) : s[j] # x
         IN  SubSeq(s, 1, i - 1) \o SubSeq(s, i + 1, Len(s))

\* Widget.add_widget(widget, index) of the base class
sup_add_widget(ch, widget, index) == ListInsert(ch, index, widget)

\* Widget.remove_widget(widget) of the base class
sup_remove_widget(ch, widget) == ListRemove(ch, widget)

\* EventDispatcher.bind / unbind of one observer
Bind(observers, o) == Append(observers, o)
Unbind(observers, o) == SelectSeq(observers, LAMBDA b : b # o)

\* MotionEvent.grab / ungrab
touch_grab(gl, w) == gl \cup {w}
touch_ungrab(gl, w) == gl \ {w}

---------------------------------------------------------------------------
(* on_sizable_from, lines 90-124 *)

\* strip_cls(): a new SplitterStrip, with the toolkit's defaults and no bindings
NewStripWidget ==
    [size_hint |-> <<One, One>>, width |-> Unset, height |-> Unset,
     on_touch_down |-> << >>, on_touch_move |-> << >>, on_touch_up |-> << >>]

StripName(n) == IF n = 1 THEN "strip1" ELSE IF n = 2 THEN "strip2" ELSE "stripN"

AlwaysNewStrip(strp, created) == StripName(created + 1)

\* lines 95-99: the strip on_sizable_from works on
StripFor(strp, created) == IF strp # None THEN strp ELSE StripName(created + 1)

StripIndexSwapped(sz_frm) == IF sz_frm \in {"r", "b"} THEN 1 ELSE 0

\* lines 114-116: where the strip is inserted
StripIndex(sz_frm) == IF sz_frm \in {"r", "b"} THEN 0 ELSE 1

StripGeometryHintOnly(sw, sz_frm, ssize) ==
    IF sz_frm \in {"l", "r"}
    THEN [sw EXCEPT !.size_hint = <<Unset, One>>]
    ELSE [sw EXCEPT !.size_hint = <<One, Unset>>]

\* lines 102-104 and 108-109: the strip's size hint and fixed dimension
StripGeometry(sw, sz_frm, ssize) ==
    IF sz_frm \in {"l", "r"}
    THEN [sw EXCEPT !.size_hint = <<Unset, One>>, !.width = <<ssize>>]
    ELSE [sw EXCEPT !.size_hint = <<One, Unset>>, !.height = <<ssize>>]

\* lines 105-106 and 111-112: unbind, then bind, the setter of the strip's dimension
RebindStripSize(observers, strp, sz_frm) ==
    LET o == <<strp, IF sz_frm \in {"l", "r"} THEN "width" ELSE "height">>
    IN  Bind(Unbind(observers, o), o)

BindHandlersOnly(sw) ==
    [sw EXCEPT
       !.on_touch_down = Bind(sw.on_touch_down, "strip_down"),
       !.on_touch_move = Bind(sw.on_touch_move, "strip_move"),
       !.on_touch_up = Bind(sw.on_touch_up, "strip_up")]

\* lines 119-124: unbind, then bind, the three touch handlers
RebindHandlers(sw) ==
    [sw EXCEPT
       !.on_touch_down = Bind(Unbind(sw.on_touch_down, "strip_down"), "strip_down"),
       !.on_touch_move = Bind(Unbind(sw.on_touch_move, "strip_move"), "strip_move"),
       !.on_touch_up = Bind(Unbind(sw.on_touch_up, "strip_up"), "strip_up")]

GuardNeverReturns(container) == FALSE

\* line 91: on_sizable_from returns at once while there is no managed widget
NoContainer(container) == container = None

\* on_sizable_from on the widget state w, a record of the fields it reads and writes
on_sizable_from(w) ==
    IF NoContainer(w._container) THEN w
    ELSE
      LET _strp == StripFor(w._strip, w.strips_created)
          fresh == _strp # w._strip
          ch1 == IF w._strip # None THEN sup_remove_widget(w.children, w._strip)
                 ELSE w.children
          sw0 == IF fresh THEN NewStripWidget ELSE w.strip_w
          sz_frm == sz_frm_of(w.sizable_from)
      IN  [w EXCEPT
             !._strip = _strp,
             !.strips_created = IF fresh THEN @ + 1 ELSE @,
             !.strip_w = RebindHandlers(StripGeometry(sw0, sz_frm, w.strip_size)),
             !.orientation = IF sz_frm \in {"l", "r"} THEN @ ELSE "vertical",
             !.strip_size_observers = RebindStripSize(@, _strp, sz_frm),
             !.children = sup_add_widget(ch1, _strp, StripIndex(sz_frm))]

\* the fields on_sizable_from works on, as a record
WidgetState ==
    [_container |-> _container, _strip |-> _strip, strips_created |-> strips_created,
     children |-> children, orientation |-> orientation,
     strip_size_observers |-> strip_size_observers, strip_w |-> strip_w,
     sizable_from |-> sizable_from, strip_size |-> strip_size]

\* the next state takes these fields from the record w
SetWidgetState(w) ==
    /\ _container' = w._container
    /\ _strip' = w._strip
    /\ strips_created' = w.strips_created
    /\ children' = w.children
    /\ orientation' = w.orientation
    /\ strip_size_observers' = w.strip_size_observers
    /\ strip_w' = w.strip_w
    /\ sizable_from' = w.sizable_from
    /\ strip_size' = w.strip_size

---------------------------------------------------------------------------
(* Construction, lines 85-88 *)

\* the size hint a candidate widget is constructed with: p1 with
\* size_hint=(None, None), every other one with the toolkit's default (1, 1)
PanelDefaults(p) == IF p = "p1" THEN <<Unset, Unset>> ELSE <<One, One>>

\* the state after Splitter(**kwargs), added to a parent: kw gives sizable_from,
\* min_size, max_size, the size and the size hint (both axes alike) and the parent
Constructed(kwargs) ==
    \E kw \in kwargs :
        /\ sizable_from = kw.sizable_from
        /\ strip_size = 1
        /\ min_size = kw.min_size
        /\ max_size = kw.max_size
        /\ _container = None
        /\ _strip = None
        /\ strips_created = 0
        /\ children = << >>
        /\ orientation = "horizontal"
        /\ strip_size_observers = << >>
        /\ strip_w = NewStripWidget
        /\ panel_hint = [p \in Panels |-> PanelDefaults(p)]
        /\ width = kw.size
        /\ height = kw.size
        /\ size_hint_x = kw.size_hint
        /\ size_hint_y = kw.size_hint
        /\ parent = kw.parent
        /\ touch_grab_list = {}
        /\ last = [op |-> "init", ret |-> "None", path |-> "none", clamp |-> "none",
                   d |-> 0]

Kwargs(edge, mn, mx, size, hint, par) ==
    [sizable_from |-> edge, min_size |-> mn, max_size |-> mx, size |-> size,
     size_hint |-> hint, parent |-> par]

MidSize == SmallSize + 1

\* Splitter(): the default edge, a fixed size, and limits that pin the size
Init == Constructed({Kwargs("left", MidSize, MidSize, MidSize, Unset, "sized")})

\* Splitters on every edge: of fixed size (set, or not yet positive) and of stretched
\* size, with limits in either order, above 1, around 1 or at 0, in a parent with an
\* extent, with an extent of zero, or with no parent
InitDrag ==
    Constructed(
        {Kwargs(e, SmallSize, LargeSize, 0, Unset, "sized") : e \in Edges}
        \cup {Kwargs(e, 0, LargeSize, 0, Unset, "sized") : e \in Edges}
        \cup {Kwargs(e, 0, 0, 0, Unset, "sized") : e \in Edges}
        \cup {Kwargs(e, SmallSize, LargeSize, MidSize, Unset, "sized") : e \in Edges}
        \cup {Kwargs(e, LargeSize, SmallSize, MidSize, Unset, "sized") : e \in Edges}
        \cup {Kwargs(e, SmallSize, LargeSize, MidSize, <<MidSize>>, p) :
                e \in Edges, p \in Parents})

---------------------------------------------------------------------------
(* History *)

Done(op, ret) == [op |-> op, ret |-> ret, path |-> "none", clamp |-> "none", d |-> 0]

---------------------------------------------------------------------------
(* add_widget, remove_widget, clear_widgets: lines 126-148 *)

\* lines 136-138: where the managed widget is inserted
PanelIndex(sz_frm) == IF sz_frm \in {"r", "b"} THEN 1 ELSE 0

AddWidgetAcceptsSecond(container, widget) == widget = None

\* line 127: the calls add_widget turns down
AddWidgetRejects(container, widget) == container # None \/ widget = None

\* lines 130-134: the managed widget is stretched on the resize axis
PanelHint(h, sz_frm) ==
    IF sz_frm \in {"l", "r"} THEN <<One, h[2]>> ELSE <<h[1], One>>

\* add_widget(widget), lines 126-140
add_widget(widget) ==
    IF AddWidgetRejects(_container, widget)
    THEN /\ last' = Done("add_widget", "Exception")
         /\ UNCHANGED <<config_vars, size_vars, parent, touch_grab_list>>
    ELSE LET sz_frm == sz_frm_of(sizable_from)
             w == [WidgetState EXCEPT
                     !._container = widget,
                     !.children = sup_add_widget(children, widget, PanelIndex(sz_frm))]
         IN  /\ SetWidgetState(on_sizable_from(w))
             /\ panel_hint' = [panel_hint EXCEPT ![widget] = PanelHint(@, sz_frm)]
             /\ last' = Done("add_widget", "None")
             /\ UNCHANGED <<min_size, max_size, size_vars, parent, touch_grab_list>>

remove_widget_KeepsReference(widget, op) ==
    /\ children' = sup_remove_widget(children, widget)
    /\ last' = Done(op, "None")
    /\ UNCHANGED <<sizable_from, strip_size, min_size, max_size, _container, _strip,
                   strips_created, orientation, strip_size_observers, strip_w,
                   panel_hint, size_vars, parent, touch_grab_list>>

\* remove_widget(widget), lines 142-145
remove_widget(widget, op) ==
    /\ children' = sup_remove_widget(children, widget)
    /\ _container' = IF widget = _container THEN None ELSE _container
    /\ last' = Done(op, "None")
    /\ UNCHANGED <<sizable_from, strip_size, min_size, max_size, _strip,
                   strips_created, orientation, strip_size_observers, strip_w,
                   panel_hint, size_vars, parent, touch_grab_list>>

\* clear_widgets(), lines 147-148
clear_widgets == remove_widget(_container, "clear_widgets")

AddWidget == \E widget \in Panels \cup {None} : add_widget(widget)

\* remove_widget of a candidate widget, of None or of the strip
RemoveWidget ==
    \E widget \in Panels \cup {None, _strip} :
        remove_widget(widget, "remove_widget")

ClearWidgets == clear_widgets

---------------------------------------------------------------------------
(* Property changes: sizable_from (line 55) and strip_size (line 64) *)

\* self.sizable_from = edge: the property dispatches on_sizable_from when it changes
SetSizableFrom ==
    \E edge \in Edges \ {sizable_from} :
        /\ SetWidgetState(on_sizable_from([WidgetState EXCEPT !.sizable_from = edge]))
        /\ last' = Done("sizable_from", "None")
        /\ UNCHANGED <<min_size, max_size, panel_hint, size_vars, parent,
                       touch_grab_list>>

\* how many observers of strip_size set property prop of widget w
Deliveries(observers, w, prop) ==
    Cardinality({i \in 1..Len(observers) : observers[i] = <<w, prop>>})

\* which of the strip's dimensions a change of strip_size is delivered to
DeliveryPath(observers, w) ==
    LET nw == Deliveries(observers, w, "width")
        nh == Deliveries(observers, w, "height")
    IN  IF nw > 1 \/ nh > 1 THEN "duplicate"
        ELSE IF nw = 1 /\ nh = 1 THEN "both"
        ELSE IF nw = 1 THEN "width"
        ELSE IF nh = 1 THEN "height"
        ELSE "none"

\* self.strip_size = v: every observer bound in lines 106 and 112 is called
SetStripSize ==
    \E v \in StripSizes \ {strip_size} :
        /\ strip_size' = v
        /\ strip_w' = [strip_w EXCEPT
              !.width = IF Deliveries(strip_size_observers, _strip, "width") > 0
                        THEN <<v>> ELSE @,
              !.height = IF Deliveries(strip_size_observers, _strip, "height") > 0
                         THEN <<v>> ELSE @]
        /\ last' = [Done("strip_size", "None") EXCEPT
                      !.path = DeliveryPath(strip_size_observers, _strip)]
        /\ UNCHANGED <<sizable_from, min_size, max_size, _container, _strip,
                       strips_created, children, orientation, strip_size_observers,
                       panel_hint, size_vars, parent, touch_grab_list>>

---------------------------------------------------------------------------
(* The touch handlers, lines 150-203 *)

\* the values touch.grab_current can have when a handler of the strip is called:
\* None outside a grabbed dispatch, else the widget the event is dispatched for
GrabCurrents == {None, _strip} \cup (touch_grab_list \cap {Self})

strip_up_AlwaysGrabs(collide) ==
    [ret |-> "None", grab_list |-> touch_grab(touch_grab_list, Self)]

\* strip_up(instance, touch), lines 150-154, bound to on_touch_up in line 124
strip_up(collide) ==
    IF ~collide
    THEN [ret |-> "False", grab_list |-> touch_grab_list]
    ELSE [ret |-> "None", grab_list |-> touch_grab(touch_grab_list, Self)]

\* strip_down(instance, touch), lines 200-203, bound to on_touch_down in line 122
strip_down(grab_current) ==
    IF grab_current # Self
    THEN [ret |-> "None", grab_list |-> touch_grab_list]
    ELSE [ret |-> "None", grab_list |-> touch_ungrab(touch_grab_list, Self)]

\* line 157: the moves strip_move ignores
MoveIgnored(grab_current, strp) == grab_current # strp

MoveSignInverted(sz_frm) == IF sz_frm \in {"b", "l"} THEN 1 ELSE 0 - 1

\* lines 159, 166-167 and 183-184
MoveSign(sz_frm) == IF sz_frm \in {"b", "l"} THEN 0 - 1 ELSE 1

FixedResizeNoSnap(size, sd) == size + sd

\* lines 169-172 and 186-189: the fixed size after a move of sd = sign * diff
FixedResize(size, sd) == IF size > 0 THEN size + sd ELSE 1

ClampMaxOnly(size, mn, mx) == IF size > mx THEN mx ELSE size

\* lines 176-180 and 194-198: the size the clamp leaves
Clamp(size, mn, mx) == IF size > mx THEN mx ELSE IF size < mn THEN mn ELSE size

\* which branch of the clamp is taken
ClampPath(size, mn, mx) ==
    IF size > mx THEN "max" ELSE IF size < mn THEN "min" ELSE "none"

\* lines 168-180 and 185-198 on one axis: size and hint are the widget's dimension
\* and size hint on the resize axis, diff is touch.dy or touch.dx, par is the parent
ResizeAxis(size, hint, diff, sign, mn, mx, par) ==
    IF ~Truthy(hint)
    THEN LET s1 == FixedResize(size, sign * diff)
         IN  [ret |-> "None", size |-> Clamp(s1, mn, mx), hint |-> hint,
              path |-> IF size > 0 THEN "fixed_add" ELSE "fixed_snap",
              clamp |-> ClampPath(s1, mn, mx)]
    ELSE IF par = "None"
    THEN [ret |-> "AttributeError", size |-> size, hint |-> hint,
          path |-> "raised", clamp |-> "none"]
    ELSE IF par = "zero"
    THEN [ret |-> "ZeroDivisionError", size |-> size, hint |-> hint,
          path |-> "raised", clamp |-> "none"]
    ELSE [ret |-> "None", size |-> Clamp(size, mn, mx),
          hint |-> <<hint[1] + sign * diff>>,
          path |-> "stretch", clamp |-> ClampPath(size, mn, mx)]

strip_move_BothAxes(grab_current, dx, dy) ==
    LET sign == MoveSign(sz_frm_of(sizable_from))
        same == [ret |-> "False", path |-> "ignored", clamp |-> "none", d |-> 0,
                 width |-> width, height |-> height,
                 size_hint_x |-> size_hint_x, size_hint_y |-> size_hint_y]
        rx == ResizeAxis(width, size_hint_x, dx, sign, min_size, max_size, parent)
        ry == ResizeAxis(height, size_hint_y, dy, sign, min_size, max_size, parent)
    IN  IF MoveIgnored(grab_current, _strip) THEN same
        ELSE [same EXCEPT !.ret = rx.ret, !.path = rx.path, !.clamp = rx.clamp,
                          !.d = dx, !.width = rx.size, !.size_hint_x = rx.hint,
                          !.height = ry.size, !.size_hint_y = ry.hint]

\* strip_move(instance, touch), lines 156-198
strip_move(grab_current, dx, dy) ==
    LET sz_frm == sz_frm_of(sizable_from)
        sign == MoveSign(sz_frm)
        same == [ret |-> "False", path |-> "ignored", clamp |-> "none", d |-> 0,
                 width |-> width, height |-> height,
                 size_hint_x |-> size_hint_x, size_hint_y |-> size_hint_y]
    IN  IF MoveIgnored(grab_current, _strip) THEN same
        ELSE IF sz_frm \in {"t", "b"}
        THEN LET r == ResizeAxis(height, size_hint_y, dy, sign, min_size, max_size,
                                 parent)
             IN  [same EXCEPT !.ret = r.ret, !.path = r.path, !.clamp = r.clamp,
                              !.d = dy, !.height = r.size, !.size_hint_y = r.hint]
        ELSE LET r == ResizeAxis(width, size_hint_x, dx, sign, min_size, max_size,
                                 parent)
             IN  [same EXCEPT !.ret = r.ret, !.path = r.path, !.clamp = r.clamp,
                              !.d = dx, !.width = r.size, !.size_hint_x = r.hint]

\* a size hint of the model stays within 0..MaxHint
HintInBounds(h) == IF h = Unset THEN TRUE ELSE 0 <= h[1] /\ h[1] <= MaxHint

\* the strip dispatches on_touch_down to the handler bound to it
on_touch_down(grab_current) ==
    /\ _strip # None
    /\ InList(strip_w.on_touch_down, "strip_down")
    /\ LET r == strip_down(grab_current)
       IN  /\ touch_grab_list' = r.grab_list
           /\ last' = Done("on_touch_down", r.ret)
    /\ UNCHANGED <<config_vars, size_vars, parent>>

\* the strip dispatches on_touch_move to the handler bound to it
on_touch_move(grab_current, dx, dy) ==
    /\ _strip # None
    /\ InList(strip_w.on_touch_move, "strip_move")
    /\ LET r == strip_move(grab_current, dx, dy)
       IN  /\ HintInBounds(r.size_hint_x)
           /\ HintInBounds(r.size_hint_y)
           /\ width' = r.width
           /\ height' = r.height
           /\ size_hint_x' = r.size_hint_x
           /\ size_hint_y' = r.size_hint_y
           /\ last' = [op |-> "on_touch_move", ret |-> r.ret, path |-> r.path,
                       clamp |-> r.clamp, d |-> r.d]
    /\ UNCHANGED <<config_vars, parent, touch_grab_list>>

\* the strip dispatches on_touch_up to the handler bound to it
on_touch_up(collide) ==
    /\ _strip # None
    /\ InList(strip_w.on_touch_up, "strip_up")
    /\ LET r == strip_up(collide)
       IN  /\ touch_grab_list' = r.grab_list
           /\ last' = Done("on_touch_up", r.ret)
    /\ UNCHANGED <<config_vars, size_vars, parent>>

StripTouchDown == \E gc \in GrabCurrents : on_touch_down(gc)

StripTouchMove == \E gc \in GrabCurrents, m \in Moves : on_touch_move(gc, m[1], m[2])

\* touch.grab_current is not read by strip_up
StripTouchUp == \E collide \in BOOLEAN : on_touch_up(collide)

\* parent.width and parent.height of a parent
Extent(par) == IF par = "sized" THEN ParentExtent ELSE 0

\* the size the parent's layout gives a widget with a size hint on an axis: the hint
\* (a numerator over ParentExtent) times the parent's extent
Realized(size, hint) ==
    IF ~Truthy(hint) THEN size
    ELSE (hint[1] * Extent(parent)) \div ParentExtent

\* the parent's layout pass, which the toolkit runs after the handlers return
DoLayout ==
    /\ parent # "None"
    /\ width' = Realized(width, size_hint_x)
    /\ height' = Realized(height, size_hint_y)
    /\ last' = Done("do_layout", "None")
    /\ UNCHANGED <<config_vars, size_hint_x, size_hint_y, parent, touch_grab_list>>

---------------------------------------------------------------------------
(* Specifications *)

Next ==
    \/ AddWidget
    \/ RemoveWidget
    \/ ClearWidgets
    \/ SetSizableFrom
    \/ SetStripSize
    \/ StripTouchDown
    \/ StripTouchMove
    \/ StripTouchUp
    \/ DoLayout

Spec == Init /\ [][Next]_vars

\* the touch handlers, with what makes the strip and what lays the Splitter out;
\* the edge is the one the Splitter is constructed with
NextDrag ==
    \/ AddWidget
    \/ StripTouchDown
    \/ StripTouchMove
    \/ StripTouchUp
    \/ DoLayout

SpecDrag == InitDrag /\ [][NextDrag]_vars

---------------------------------------------------------------------------
(* Properties *)

Horizontal == sizable_from \in {"left", "right"}

\* the Splitter's size and size hint on the resize axis
AxisSize == IF Horizontal THEN width ELSE height
AxisHint == IF Horizontal THEN size_hint_x ELSE size_hint_y

\* the last operation was a touch move that strip_move did not ignore
MoveProcessed == last.op = "on_touch_move" /\ last.ret = "None"

\* C1: in fixed-size mode and with min_size <= max_size, after every move that
\* strip_move processes the size on the resize axis lies within
\* [min_size, max_size], on every edge.
C1_SizeWithinLimits ==
    (MoveProcessed /\ last.path \in {"fixed_add", "fixed_snap"}
       /\ min_size <= max_size)
    => (min_size <= AxisSize /\ AxisSize <= max_size)

\* a processed move in fixed-size mode whose result the clamp cut down to max_size
C1_Witness ==
    /\ MoveProcessed /\ last.path = "fixed_add" /\ last.clamp = "max"
    /\ min_size < max_size /\ AxisSize = max_size

\* C2: in stretch mode the clamp acts on the size the new hint is realized as: after
\* a processed move, a new hint whose realized size exceeds max_size leaves the size
\* at max_size, and one whose realized size is below min_size leaves it at min_size.
C2_ClampOnRealizedSize ==
    (MoveProcessed /\ last.path = "stretch" /\ min_size <= max_size)
    => /\ (Realized(AxisSize, AxisHint) > max_size => AxisSize = max_size)
       /\ (Realized(AxisSize, AxisHint) < min_size => AxisSize = min_size)

\* C3: a drag session is Idle -> Dragging -> Idle: when the pointer-up event of a
\* gesture follows its pointer-down event on the strip, the Splitter no longer
\* holds the gesture's capture once the up event has been handled.
C3_UpReleasesCapture ==
    [][(last.op = "on_touch_down" /\ last'.op = "on_touch_up")
       => Self \notin touch_grab_list']_vars

\* C4: add_widget called while a managed widget is present, or with no widget,
\* returns an error and changes nothing: not the managed widget, the children, the
\* strip, the orientation or any binding.
C4_RejectedAddChangesNothing ==
    [][\A widget \in Panels \cup {None} :
          (add_widget(widget) /\ (_container # None \/ widget = None))
          => (last'.ret = "Exception"
              /\ UNCHANGED <<config_vars, size_vars, parent, touch_grab_list>>)]_vars

\* a second add_widget was turned down and the first widget and the strip are the
\* children
C4_Witness ==
    /\ last.op = "add_widget" /\ last.ret = "Exception"
    /\ _container = "p1" /\ children = <<"p1", "strip1">>

\* C5: a move or up event delivered while the capture owner is not the one the
\* handler requires (the strip for a move, the Splitter for an up) changes neither
\* the size, the size hints nor the capture, and returns a falsy result.
C5_ForeignEventsAreNoOps ==
    [][/\ \A gc \in GrabCurrents, m \in Moves :
             (on_touch_move(gc, m[1], m[2]) /\ gc # _strip)
             => (last'.ret = "False" /\ UNCHANGED <<size_vars, touch_grab_list>>)
       /\ \A collide \in BOOLEAN :
             (on_touch_up(collide) /\ Self \notin touch_grab_list)
             => (last'.ret \in {"False", "None"}
                 /\ UNCHANGED <<size_vars, touch_grab_list>>)]_vars

\* C6: in fixed-size mode with a positive size, a processed move whose unclamped
\* result stays within [min_size, max_size] changes the size by +dx on the right
\* edge, -dx on the left, +dy on the top and -dy on the bottom, and leaves the other
\* dimension unchanged.
C6_DragSign ==
    [][\A m \in Moves :
          LET expected ==
                CASE sizable_from = "right" -> width + m[1]
                  [] sizable_from = "left" -> width - m[1]
                  [] sizable_from = "top" -> height + m[2]
                  [] sizable_from = "bottom" -> height - m[2]
          IN  (/\ on_touch_move(_strip, m[1], m[2])
               /\ ~Truthy(AxisHint) /\ AxisSize > 0
               /\ min_size <= expected /\ expected <= max_size)
              => IF Horizontal
                 THEN width' = expected /\ height' = height
                 ELSE height' = expected /\ width' = width]_vars

\* a drag of the left strip by a non-zero dx was applied without clamping
C6_Witness ==
    /\ MoveProcessed /\ last.path = "fixed_add" /\ last.clamp = "none"
    /\ last.d # 0 /\ sizable_from = "left"

\* C7: with a managed widget attached, a change of strip_size is delivered to the
\* strip's dimension that matches the current edge (width for left and right,
\* height for top and bottom), exactly once, and to no other dimension.
C7_StripSizeFollowsEdge ==
    (last.op = "strip_size" /\ _strip # None /\ _container # None)
    => last.path = IF Horizontal THEN "width" ELSE "height"

\* C8: after on_sizable_from has run with a managed widget attached, the strip is
\* fixed on the resize axis and stretched on the other: size hint (None, 1) and
\* width strip_size for left and right, (1, None) and height strip_size for top and
\* bottom.
C8_StripGeometry ==
    (last.op \in {"sizable_from", "add_widget"} /\ last.ret = "None"
       /\ _container # None)
    => IF Horizontal
       THEN strip_w.size_hint = <<Unset, One>> /\ strip_w.width = <<strip_size>>
       ELSE strip_w.size_hint = <<One, Unset>> /\ strip_w.height = <<strip_size>>

\* the edge went from a horizontal one to bottom after strip_size had been changed
C8_Witness ==
    /\ last.op = "sizable_from" /\ _container # None /\ sizable_from = "bottom"
    /\ strip_size = MaxStripSize
    /\ strip_w.width # Unset /\ strip_w.height = <<strip_size>>

C10_MoveUnderOwnCapture ==
    [][\A m \in Moves :
          (on_touch_move(Self, m[1], m[2]) /\ Self \in touch_grab_list)
          => last'.path # "ignored"]_vars

\* C11: after add_widget or a change of sizable_from with a managed widget attached,
\* the Splitter's orientation matches the current edge: horizontal for left and
\* right, vertical for top and bottom, also after going back from top or bottom to
\* left or right.
C11_OrientationFollowsEdge ==
    (last.op \in {"sizable_from", "add_widget"} /\ last.ret = "None"
       /\ _container # None)
    => orientation = IF Horizontal THEN "horizontal" ELSE "vertical"

\* C12: when add_widget succeeds or on_sizable_from runs with a managed widget
\* attached, the children are then exactly the managed widget and the strip, each
\* once, in the order of the current edge: strip first for right and bottom, managed
\* widget first for left and top, whatever adds, removals, clears and edge changes
\* came before.
C12_ChildOrder ==
    (last.op \in {"sizable_from", "add_widget"} /\ last.ret = "None"
       /\ _container # None)
    => children = IF sizable_from \in {"right", "bottom"}
                  THEN <<_strip, _container>>
                  ELSE <<_container, _strip>>

\* a second widget was attached on the right edge after the first one and the strip
\* had been removed
C12_Witness ==
    /\ last.op = "add_widget" /\ last.ret = "None"
    /\ sizable_from = "right" /\ children = <<"strip1", "p2">>
    /\ panel_hint["p1"][1] = One

\* C13: the managed widget persists across changes of sizable_from and its size
\* hint follows the axis: after an edge change with a managed widget attached, the
\* widget is the same child as before and its size hint on the new resize axis is 1,
\* also when the change goes from a horizontal edge to a vertical one or back.
C13_PanelHintFollowsAxis ==
    [][(last'.op = "sizable_from" /\ _container # None)
       => /\ _container' = _container
          /\ InList(children', _container)
          /\ panel_hint'[_container][IF sizable_from' \in {"left", "right"}
                                     THEN 1 ELSE 2] = One]_vars

\* C14: in fixed-size mode, when the size on the resize axis is not positive, a
\* processed move sets it to 1 without applying the delta of the event and then
\* clamps: with min_size <= max_size the size is then 1 clamped into
\* [min_size, max_size], whatever the delta, and it is positive when max_size >= 1.
C14_SnapToOne ==
    [][\A m \in Moves :
          (/\ on_touch_move(_strip, m[1], m[2])
           /\ ~Truthy(AxisHint) /\ AxisSize <= 0 /\ min_size <= max_size)
          => LET after == IF Horizontal THEN width' ELSE height'
             IN  /\ (1 > max_size => after = max_size)
                 /\ (1 < min_size => after = min_size)
                 /\ (min_size <= 1 /\ 1 <= max_size => after = 1)
                 /\ (max_size >= 1 => after > 0)]_vars

\* a move with a non-zero delta found a size that was not positive and limits
\* around 1, and left the size at 1
C14_Witness ==
    /\ MoveProcessed /\ last.path = "fixed_snap" /\ last.d # 0
    /\ min_size < 1 /\ 1 < max_size /\ AxisSize = 1

\* C15: on_sizable_from does nothing while no managed widget is attached: no strip is
\* created and the children, the orientation, the strip_size bindings and the strip's
\* event bindings are unchanged; a strip is created by add_widget alone.
C15_NoPanelNoStrip ==
    [][/\ (last'.op = "sizable_from" /\ _container = None)
          => UNCHANGED <<_container, _strip, strips_created, children, orientation,
                         strip_size_observers, strip_w>>
       /\ (strips_created' # strips_created)
          => (last'.op = "add_widget" /\ last'.ret = "None")]_vars

\* the edge was changed before any widget was attached: there is no strip
C15_Witness ==
    /\ last.op = "sizable_from" /\ sizable_from # "left"
    /\ _container = None /\ _strip = None /\ strips_created = 0 /\ children = << >>

\* C16: the handler that captures (strip_up) takes the capture only when the touch
\* position lies within the Splitter: for a position outside it returns False and
\* the capture is unchanged; within, the Splitter holds the capture afterwards; in
\* both cases width, height and the size hints are unchanged.
C16_CaptureOnlyWithinBounds ==
    [][\A collide \in BOOLEAN :
          on_touch_up(collide)
          => /\ (~collide => (last'.ret = "False" /\ UNCHANGED touch_grab_list))
             /\ (collide => touch_grab_list' = touch_grab_list \cup {Self})
             /\ UNCHANGED size_vars]_vars

\* a touch outside the Splitter was turned down and nobody holds the capture
C16_Witness ==
    /\ last.op = "on_touch_up" /\ last.ret = "False"
    /\ touch_grab_list = {}

\* C17: rebinding is idempotent: after any number of runs of on_sizable_from with a
\* managed widget attached, on the same edge or on other edges, the strip has
\* exactly one handler of the Splitter bound to each of on_touch_down, on_touch_move
\* and on_touch_up.
C17_OneHandlerPerEvent ==
    _strip # None
    => /\ strip_w.on_touch_down = <<"strip_down">>
       /\ strip_w.on_touch_move = <<"strip_move">>
       /\ strip_w.on_touch_up = <<"strip_up">>

\* on_sizable_from has run for the first widget, for a second widget on the same
\* strip, and for a change of the edge
C17_Witness ==
    /\ last.op = "sizable_from" /\ _container = "p2" /\ panel_hint["p1"] # <<Unset, Unset>>
    /\ _strip = "strip1" /\ strips_created = 1
    /\ Len(strip_w.on_touch_move) = 1

\* C18: one managed widget at most, across add_widget, remove_widget, clear_widgets
\* and edge changes: _container is set exactly when the managed widget is among the
\* children, and the children never hold more than one widget besides the strip;
\* remove_widget(w) clears _container if and only if w is the managed widget, after
\* which add_widget of another widget succeeds; clear_widgets with no managed widget
\* changes nothing.
C18_SinglePanel ==
    /\ [](/\ (_container # None) <=> (\E i \in 1..Len(children) : children[i] \in Panels)
          /\ (_container # None) => InList(children, _container)
          /\ Cardinality({i \in 1..Len(children) : children[i] # _strip}) <= 1)
    /\ [][/\ \A w \in Panels \cup {None, _strip} :
                (remove_widget(w, "remove_widget") /\ _container # None)
                => ((_container' = None) <=> (w = _container))
          /\ \A p \in Panels :
                (/\ last.op \in {"remove_widget", "clear_widgets"}
                 /\ _container = None /\ add_widget(p))
                => (last'.ret = "None" /\ _container' = p /\ InList(children', p))
          /\ (clear_widgets /\ _container = None)
             => UNCHANGED <<config_vars, size_vars, parent, touch_grab_list>>]_vars

\* the first widget was removed and a second one was attached in its place
C18_Witness ==
    /\ last.op = "add_widget" /\ last.ret = "None" /\ _container = "p2"
    /\ panel_hint["p1"] # <<Unset, Unset>> /\ ~InList(children, "p1")
    /\ Len(children) = 2

\* C19: no touch handler ends in an error: in every reachable state and for every
\* event strip_up, strip_move and strip_down return normally, also for a processed
\* move in stretch mode when the parent's extent on the resize axis is 0 or the
\* Splitter has no parent.
C19_HandlersNeverRaise ==
    last.op \in {"on_touch_down", "on_touch_move", "on_touch_up"}
    => last.ret \in {"None", "False"}

\* C20: the touch handlers never change the configuration: for every event and
\* state, strip_up, strip_move and strip_down leave min_size, max_size, strip_size,
\* sizable_from, the children and _container unchanged, and strip_move changes only
\* the dimension or the size hint on the resize axis, never the width, height or
\* size hint of the other axis.
C20_HandlersKeepConfiguration ==
    [][(\/ \E gc \in GrabCurrents : on_touch_down(gc)
        \/ \E gc \in GrabCurrents, m \in Moves : on_touch_move(gc, m[1], m[2])
        \/ \E collide \in BOOLEAN : on_touch_up(collide))
       => /\ UNCHANGED <<min_size, max_size, strip_size, sizable_from, children,
                         _container>>
          /\ IF Horizontal
             THEN UNCHANGED <<height, size_hint_y>>
             ELSE UNCHANGED <<width, size_hint_x>>]_vars

\* a move on the top edge changed the height and left the width alone
C20_Witness ==
    /\ MoveProcessed /\ last.path = "fixed_add" /\ last.d # 0
    /\ sizable_from = "top" /\ height # width /\ width = MidSize

=============================================================================
